---- MODULE Spec2Model ----
(***************************************************************************)
(* Workstream (src/workstream.py): a timeline, a summary, a list of        *)
(* reference documents and a buffer of pending messages, updated by        *)
(* add_document and process_message.  process_message blocks on up to      *)
(* three calls of the Anthropic client; every such call is a step of the   *)
(* model whose response (a message, a message without content, or a        *)
(* transport error) is chosen by the environment.                          *)
(*                                                                         *)
(* Python strings are sequences of tokens (TLA+ strings); string           *)
(* concatenation is \o.  The gate's answer is a sequence of single         *)
(* characters, so that str.strip() and == act on characters.               *)
(***************************************************************************)
EXTENDS Integers, Sequences, FiniteSets, TLC

VARIABLES
    heap,    \* the Python list objects holding documents: reference -> list
    ws,      \* the constructed Workstream instances: instance -> fields
    th,      \* the threads calling process_message: thread -> frame
    stats    \* history: per instance, the calls that committed, and the calls
             \* that buffered since the last of them

vars == <<heap, ws, th, stats>>

----------------------------------------------------------------------------
\* Bounds of the model.

MaxPending == 3     \* messages buffered in pending_context
MaxCommits == 2     \* entries committed to one timeline
MaxDocs == 2        \* documents in one list
MaxConcPending == 2 \* two threads: messages buffered when a call starts
MaxConcCommits == 1 \* two threads: entries committed when a call starts

----------------------------------------------------------------------------
\* Values.

Threads == {"main", "worker"}
MainThread == "main"

Doc(c, md, ts) == [content |-> c, metadata |-> md, timestamp |-> ts]
NoMetadata == [k \in {} |-> ""]
Documents ==
    { Doc("spec", [title |-> "Tech Spec"], "d1"),
      Doc("rfc", NoMetadata, "d2") }

IncomingMessage(ts, txt, sid) == [timestamp |-> ts, text |-> txt, stream_id |-> sid]
Messages ==
    { IncomingMessage("t1", "kickoff", "svc"),
      IncomingMessage("t2", "merged", "svc"),
      IncomingMessage("t3", "lunch", "other") }
NoMessage == IncomingMessage("", "", "")

Streams == <<"svc">>

\* What client.messages.create does: raise, or return a message whose
\* content is a list of text blocks.
TransportError == [kind |-> "error", content |-> <<>>]
Reply(blocks) == [kind |-> "message", content |-> blocks]
TextReply(t) == Reply(<<[text |-> t]>>)
NoReply == Reply(<<>>)

GateTexts ==
    { <<"A", "D", "D">>, <<"S", "T", "O", "R", "E">>,
      <<" ", "A", "D", "D", "\n">>, <<"a", "d", "d">>, <<"M", "A", "Y", "B", "E">>,
      <<>> }
EntryTexts == { <<>>, <<"[t] Status: done">> }
SummaryTexts == { <<"summary A">>, <<"summary B">> }

GateResponses == {TransportError, NoReply} \cup {TextReply(t) : t \in GateTexts}
EntryResponses == {TransportError, NoReply} \cup {TextReply(t) : t \in EntryTexts}
SummaryResponses == {TransportError, NoReply} \cup {TextReply(t) : t \in SummaryTexts}

----------------------------------------------------------------------------
\* Strings.

Whitespace == {" ", "\t", "\n", "\r"}

RECURSIVE LStrip(_)
LStrip(s) ==
    IF s # <<>> /\ Head(s) \in Whitespace THEN LStrip(Tail(s)) ELSE s

RECURSIVE RStrip(_)
RStrip(s) ==
    IF s # <<>> /\ s[Len(s)] \in Whitespace
    THEN RStrip(SubSeq(s, 1, Len(s) - 1))
    ELSE s

\* str.strip()
Strip(s) == RStrip(LStrip(s))

IsPrefix(s, t) == Len(s) <= Len(t) /\ SubSeq(t, 1, Len(s)) = s

----------------------------------------------------------------------------
\* Workstream.__init__

\* baseline_docs or []: the caller's list object when it is a non-empty
\* list, a new empty list otherwise.  base = 0 stands for None.
DocumentsRef(h, base) ==
    IF base # 0 /\ h[base] # <<>> THEN base ELSE Len(h) + 1

HeapAfterInit(h, base) ==
    IF base # 0 /\ h[base] # <<>> THEN h ELSE Append(h, <<>>)

SetOf(list) == {list[k] : k \in 1..Len(list)}

Workstream(name, streams, ref) ==
    [ name |-> name,
      timeline |-> <<>>,
      summary |-> <<>>,
      subscribed_streams |-> SetOf(streams),
      documents |-> ref,
      pending_context |-> <<>> ]

\* The lists a caller may pass as baseline_docs.
BaselineLists == { <<>> } \cup { <<d>> : d \in Documents }

NoStats == [stored |-> 0, commits |-> 0]

IdleFrame ==
    [ pc |-> "idle", self |-> 0, message |-> NoMessage,
      context_section |-> <<>>, timeline_update |-> <<>>,
      requests |-> <<>>, replies |-> <<>>, result |-> "none",
      before |-> [heap |-> <<>>, ws |-> <<>>] ]

\* One Workstream, constructed with no baseline list or with a list the
\* caller made.
Init ==
    \E base \in {0, 1} :
      \E list \in BaselineLists :
        LET h0 == IF base = 0 THEN <<>> ELSE <<list>> IN
        /\ base = 0 => list = <<>>
        /\ heap = HeapAfterInit(h0, base)
        /\ ws = <<Workstream("ws", Streams, DocumentsRef(h0, base))>>
        /\ th = [t \in Threads |-> IdleFrame]
        /\ stats = <<NoStats>>

----------------------------------------------------------------------------
\* Workstream.add_document

AddDocument(i, d) ==
    /\ i \in DOMAIN ws
    /\ Len(heap[ws[i].documents]) < MaxDocs
    /\ heap' = [heap EXCEPT ![ws[i].documents] = Append(@, d)]
    /\ UNCHANGED <<ws, th, stats>>

----------------------------------------------------------------------------
\* Workstream._build_context_section

\* doc.metadata.get('title', 'Document')
Title(doc) ==
    IF "title" \in DOMAIN doc.metadata THEN doc.metadata["title"] ELSE "Document"

RenderDocument(doc) ==
    <<"\n[", doc.timestamp, "] ", Title(doc), ":\n", doc.content, "\n">>

RenderMessage(msg) ==
    <<"\n[", msg.timestamp, "] ", msg.stream_id, ": ", msg.text>>

\* Variant: the newest document is rendered first.
RECURSIVE RenderDocumentsNewestFirst(_)
RenderDocumentsNewestFirst(docs) ==
    IF docs = <<>> THEN <<>>
    ELSE RenderDocumentsNewestFirst(Tail(docs)) \o RenderDocument(Head(docs))

RECURSIVE RenderDocuments(_)
RenderDocuments(docs) ==
    IF docs = <<>> THEN <<>>
    ELSE RenderDocument(Head(docs)) \o RenderDocuments(Tail(docs))

RECURSIVE RenderMessages(_)
RenderMessages(msgs) ==
    IF msgs = <<>> THEN <<>>
    ELSE RenderMessage(Head(msgs)) \o RenderMessages(Tail(msgs))

\* Variant: the pending messages are left out of the context.
BuildContextSectionDocumentsOnly(docs, pending) ==
    <<"\nRelevant Documents:\n">> \o RenderDocuments(docs)

\* Variants: the header of the pending section is written whether or not
\* messages are pending; only the latest pending message is rendered.
BuildContextSectionAlwaysHeader(docs, pending) ==
    <<"\nRelevant Documents:\n">>
    \o RenderDocuments(docs)
    \o <<"\nPending Messages:\n">> \o RenderMessages(pending)

BuildContextSectionLatestOnly(docs, pending) ==
    <<"\nRelevant Documents:\n">>
    \o RenderDocuments(docs)
    \o (IF pending # <<>>
        THEN <<"\nPending Messages:\n">> \o RenderMessage(pending[Len(pending)])
        ELSE <<>>)

BuildContextSection(docs, pending) ==
    <<"\nRelevant Documents:\n">>
    \o RenderDocuments(docs)
    \o (IF pending # <<>>
        THEN <<"\nPending Messages:\n">> \o RenderMessages(pending)
        ELSE <<>>)

----------------------------------------------------------------------------
\* Workstream.process_message

\* The three prompts, by the parts of the state they are built from.
EvaluationPrompt(w, ctx, m) ==
    [ call |-> "gate", timeline |-> w.timeline, context |-> ctx,
      message |-> m, entry |-> <<>>, summary |-> <<>> ]

TimelinePrompt(w, ctx, m) ==
    [ call |-> "entry", timeline |-> w.timeline, context |-> ctx,
      message |-> m, entry |-> <<>>, summary |-> <<>> ]

SummaryPrompt(w, ctx, update) ==
    [ call |-> "summary", timeline |-> w.timeline, context |-> ctx,
      message |-> NoMessage, entry |-> update, summary |-> w.summary ]

\* Variant: the subscription check lets every stream through.
IsSubscribedAnyStream(w, m) == TRUE

\* message.stream_id not in self.subscribed_streams
IsSubscribed(w, m) == m.stream_id \in w.subscribed_streams

\* response.content[0].text raises IndexError on an empty content list; a
\* transport error is raised by the call itself.
Failed(r) == r.kind = "error" \/ r.content = <<>>
FirstText(r) == r.content[1].text

\* Variant: every answer but STORE admits the message.
ShouldAddUnlessStore(r) == Strip(FirstText(r)) # <<"S", "T", "O", "R", "E">>

\* evaluation_response.content[0].text.strip() == "ADD"
ShouldAdd(r) == Strip(FirstText(r)) = <<"A", "D", "D">>

\* Variant: the message is put at the front of the buffer.
BufferedAtFront(w, m) == [w EXCEPT !.pending_context = <<m>> \o @]

\* self.pending_context.append(message)
Buffered(w, m) == [w EXCEPT !.pending_context = Append(@, m)]

\* Variants of the commit: "=" for "+=", no separator, the buffer kept,
\* the summary kept.
CommittedRewritesTimeline(w, update, summary) ==
    [w EXCEPT !.summary = summary,
              !.timeline = <<"\n">> \o update,
              !.pending_context = <<>>]

CommittedNoSeparator(w, update, summary) ==
    [w EXCEPT !.summary = summary,
              !.timeline = @ \o update,
              !.pending_context = <<>>]

CommittedKeepsPending(w, update, summary) ==
    [w EXCEPT !.summary = summary,
              !.timeline = @ \o <<"\n">> \o update]

CommittedKeepsSummary(w, update, summary) ==
    [w EXCEPT !.timeline = @ \o <<"\n">> \o update,
              !.pending_context = <<>>]

\* self.summary = ...; self.timeline += "\n" + timeline_update;
\* self.pending_context = []
Committed(w, update, summary) ==
    [w EXCEPT !.summary = summary,
              !.timeline = @ \o <<"\n">> \o update,
              !.pending_context = <<>>]

\* Variant: a buffered message is reported as added.
RetStoredAsAdded == "true"

\* The values process_message returns.
RetNotSubscribed == "false"
RetStored == "false"
RetAdded == "true"

Finish(f, res) == [f EXCEPT !.pc = "done", !.result = res]

\* Variant: the exception is caught and reported like a buffered message.
CaughtAsStored(f) == Finish(f, "false")

\* No call is inside a try: an exception leaves process_message.
Uncaught(f) == Finish(f, "raise")

\* Lines 59-99: the subscription check, the context, the gate request.
Call(t, i, m) ==
    /\ th[t].pc = "idle"
    /\ i \in DOMAIN ws
    /\ LET f == [IdleFrame EXCEPT !.self = i, !.message = m,
                                  !.before = [heap |-> heap, ws |-> ws]]
           ctx == BuildContextSection(heap[ws[i].documents], ws[i].pending_context)
       IN  th' = [th EXCEPT ![t] =
                IF ~IsSubscribed(ws[i], m)
                THEN Finish(f, RetNotSubscribed)
                ELSE [f EXCEPT !.pc = "gate",
                               !.context_section = ctx,
                               !.requests = <<EvaluationPrompt(ws[i], ctx, m)>>]]
    /\ UNCHANGED <<heap, ws, stats>>

\* Variant: a failing gate call is caught and the message is buffered.
GateReturnStoresOnFailure(t, r) ==
    LET f == [th[t] EXCEPT !.replies = Append(@, r)]
        i == f.self
    IN
    /\ th[t].pc = "gate"
    /\ IF Failed(r) \/ ~ShouldAdd(r)
       THEN /\ Len(ws[i].pending_context) < MaxPending
            /\ ws' = [ws EXCEPT ![i] = Buffered(@, f.message)]
            /\ stats' = [stats EXCEPT ![i].stored = @ + 1]
            /\ th' = [th EXCEPT ![t] = Finish(f, RetStored)]
            /\ UNCHANGED heap
       ELSE /\ stats[i].commits < MaxCommits
            /\ th' = [th EXCEPT ![t] =
                 [f EXCEPT !.pc = "entry",
                           !.requests = Append(@,
                               TimelinePrompt(ws[i], f.context_section, f.message))]]
            /\ UNCHANGED <<heap, ws, stats>>

\* Lines 91-145: the gate's answer, the buffering, the entry request.
GateReturn(t, r) ==
    LET f == [th[t] EXCEPT !.replies = Append(@, r)]
        i == f.self
    IN
    /\ th[t].pc = "gate"
    /\ IF Failed(r)
       THEN /\ th' = [th EXCEPT ![t] = Uncaught(f)]
            /\ UNCHANGED <<heap, ws, stats>>
       ELSE IF ~ShouldAdd(r)
       THEN /\ Len(ws[i].pending_context) < MaxPending
            /\ ws' = [ws EXCEPT ![i] = Buffered(@, f.message)]
            /\ stats' = [stats EXCEPT ![i].stored = @ + 1]
            /\ th' = [th EXCEPT ![t] = Finish(f, RetStored)]
            /\ UNCHANGED heap
       ELSE /\ stats[i].commits < MaxCommits
            /\ th' = [th EXCEPT ![t] =
                 [f EXCEPT !.pc = "entry",
                           !.requests = Append(@,
                               TimelinePrompt(ws[i], f.context_section, f.message))]]
            /\ UNCHANGED <<heap, ws, stats>>

\* Variant: the context is assembled again for the summary request.
EntryReturnRebuildsContext(t, r) ==
    LET f == [th[t] EXCEPT !.replies = Append(@, r)]
        i == f.self
        ctx == BuildContextSection(heap[ws[i].documents], ws[i].pending_context)
    IN
    /\ th[t].pc = "entry"
    /\ th' = [th EXCEPT ![t] =
         IF Failed(r)
         THEN Uncaught(f)
         ELSE [f EXCEPT !.pc = "summary",
                        !.timeline_update = FirstText(r),
                        !.requests = Append(@, SummaryPrompt(ws[i], ctx, FirstText(r)))]]
    /\ UNCHANGED <<heap, ws, stats>>

\* Lines 137-173: the entry text, the summary request.
EntryReturn(t, r) ==
    LET f == [th[t] EXCEPT !.replies = Append(@, r)]
        i == f.self
    IN
    /\ th[t].pc = "entry"
    /\ th' = [th EXCEPT ![t] =
         IF Failed(r)
         THEN Uncaught(f)
         ELSE [f EXCEPT !.pc = "summary",
                        !.timeline_update = FirstText(r),
                        !.requests = Append(@,
                            SummaryPrompt(ws[i], f.context_section, FirstText(r)))]]
    /\ UNCHANGED <<heap, ws, stats>>

\* Variant: the timeline is extended before the summary is requested, so a
\* failing summary call leaves the entry behind.
SummaryReturnEntryFirst(t, r) ==
    LET f == [th[t] EXCEPT !.replies = Append(@, r)]
        i == f.self
    IN
    /\ th[t].pc = "summary"
    /\ IF Failed(r)
       THEN /\ ws' = [ws EXCEPT ![i].timeline = @ \o <<"\n">> \o f.timeline_update]
            /\ th' = [th EXCEPT ![t] = Uncaught(f)]
            /\ UNCHANGED <<heap, stats>>
       ELSE /\ ws' = [ws EXCEPT ![i] = Committed(@, f.timeline_update, FirstText(r))]
            /\ stats' = [stats EXCEPT ![i] = [stored |-> 0, commits |-> @.commits + 1]]
            /\ th' = [th EXCEPT ![t] = Finish(f, RetAdded)]
            /\ UNCHANGED heap

\* Lines 165-181: the summary text, the commit.
SummaryReturn(t, r) ==
    LET f == [th[t] EXCEPT !.replies = Append(@, r)]
        i == f.self
    IN
    /\ th[t].pc = "summary"
    /\ IF Failed(r)
       THEN /\ th' = [th EXCEPT ![t] = Uncaught(f)]
            /\ UNCHANGED <<heap, ws, stats>>
       ELSE /\ ws' = [ws EXCEPT ![i] = Committed(@, f.timeline_update, FirstText(r))]
            /\ stats' = [stats EXCEPT ![i] = [stored |-> 0, commits |-> @.commits + 1]]
            /\ th' = [th EXCEPT ![t] = Finish(f, RetAdded)]
            /\ UNCHANGED heap

\* The caller has the result (or the exception); the frame is gone.
Return(t) ==
    /\ th[t].pc = "done"
    /\ th' = [th EXCEPT ![t] = IdleFrame]
    /\ UNCHANGED <<heap, ws, stats>>

----------------------------------------------------------------------------
\* The program as its harness runs it: one thread, one call at a time.

Next ==
    \/ \E i \in DOMAIN ws, m \in Messages : Call(MainThread, i, m)
    \/ \E r \in GateResponses : GateReturn(MainThread, r)
    \/ \E r \in EntryResponses : EntryReturn(MainThread, r)
    \/ \E r \in SummaryResponses : SummaryReturn(MainThread, r)
    \/ Return(MainThread)
    \/ \E i \in DOMAIN ws, d \in Documents :
         th[MainThread].pc = "idle" /\ AddDocument(i, d)

Spec == Init /\ [][Next]_vars

----------------------------------------------------------------------------
\* Smaller inputs for the specifications with two instances or two threads.

FewMessages == { m \in Messages : m.text \in {"kickoff", "merged"} }
OneDocument == { d \in Documents : d.content = "rfc" }
OneMessage == { m \in Messages : m.text = "kickoff" }
FewGateResponses ==
    { TransportError, TextReply(<<"A", "D", "D">>), TextReply(<<"S", "T", "O", "R", "E">>) }
FewEntryResponses == { TransportError, TextReply(<<"[t] Status: done">>) }
FewSummaryResponses == { NoReply, TextReply(<<"summary A">>) }

----------------------------------------------------------------------------
\* Two Workstreams made by one caller, who passes the second constructor
\* either the list object it passed the first one (shared = TRUE) or another
\* list object with the same documents.

InitTwo ==
    \E base \in {0, 1}, shared \in BOOLEAN :
      \E list \in BaselineLists :
        LET h0 == IF base = 0 THEN <<>>
                  ELSE IF shared THEN <<list>> ELSE <<list, list>>
            base2 == IF base = 0 THEN 0 ELSE IF shared THEN 1 ELSE 2
            h1 == HeapAfterInit(h0, base)
            h2 == HeapAfterInit(h1, base2)
        IN
        /\ base = 0 => list = <<>> /\ shared
        /\ heap = h2
        /\ ws = << Workstream("a", Streams, DocumentsRef(h0, base)),
                   Workstream("b", Streams, DocumentsRef(h1, base2)) >>
        /\ th = [t \in Threads |-> IdleFrame]
        /\ stats = <<NoStats, NoStats>>

NextTwo ==
    \/ \E i \in DOMAIN ws, m \in OneMessage : Call(MainThread, i, m)
    \/ \E r \in FewGateResponses : GateReturn(MainThread, r)
    \/ \E r \in FewEntryResponses : EntryReturn(MainThread, r)
    \/ \E r \in FewSummaryResponses : SummaryReturn(MainThread, r)
    \/ Return(MainThread)
    \/ \E i \in DOMAIN ws, d \in Documents :
         th[MainThread].pc = "idle" /\ AddDocument(i, d)

SpecTwo == InitTwo /\ [][NextTwo]_vars

----------------------------------------------------------------------------
\* One Workstream called from two threads.  A thread can be suspended at
\* each of its oracle calls, where the other thread runs; add_document can
\* be called at any time.

\* Each thread brings the messages of one source.
MessagesOf(t) ==
    { m \in FewMessages : m.text = (IF t = MainThread THEN "kickoff" ELSE "merged") }

\* A call starts only while the buffer and the timeline are short (the
\* calls in progress still extend them).
CallConc(t, i, m) ==
    /\ Len(ws[i].pending_context) < MaxConcPending
    /\ stats[i].commits < MaxConcCommits
    /\ Call(t, i, m)

NextConc ==
    \/ \E t \in Threads, i \in DOMAIN ws :
         \E m \in MessagesOf(t) : CallConc(t, i, m)
    \/ \E t \in Threads, r \in FewGateResponses : GateReturn(t, r)
    \/ \E t \in Threads, r \in FewEntryResponses : EntryReturn(t, r)
    \/ \E t \in Threads, r \in FewSummaryResponses : SummaryReturn(t, r)
    \/ \E t \in Threads : Return(t)
    \/ \E i \in DOMAIN ws, d \in OneDocument : AddDocument(i, d)

SpecConc == Init /\ [][NextConc]_vars

----------------------------------------------------------------------------
\* Properties.  A frame with pc = "done" is a call of process_message that
\* has ended: th[t].before is the state when it began, th[t].requests and
\* th[t].replies are its oracle calls, th[t].result is what the caller gets.

Ended(t) == th[t].pc = "done"
Now(t) == ws[th[t].self]
Was(t) == th[t].before.ws[th[t].self]
DocsNow(t) == heap[Now(t).documents]
DocsWas(t) == th[t].before.heap[Was(t).documents]

StrictPrefix(s, u) == IsPrefix(s, u) /\ Len(s) < Len(u)

Add == <<"A", "D", "D">>
Store == <<"S", "T", "O", "R", "E">>

\* The gate call of the frame was answered, and with this text.
GateAnswered(t, text) ==
    /\ Len(th[t].replies) >= 1
    /\ ~Failed(th[t].replies[1])
    /\ FirstText(th[t].replies[1]) = text

GateFailed(t) == Len(th[t].replies) >= 1 /\ Failed(th[t].replies[1])

\* The call went on to synthesis and its last synthesis call failed.
SynthesisFailed(t) ==
    /\ Len(th[t].replies) >= 2
    /\ Failed(th[t].replies[Len(th[t].replies)])

\* The gate and both synthesis calls were answered with a text.
AllAnswered(t) ==
    /\ Len(th[t].replies) = 3
    /\ \A k \in 1..3 : ~Failed(th[t].replies[k])

SameTexts(t) ==
    /\ Now(t).timeline = Was(t).timeline
    /\ Now(t).summary = Was(t).summary
    /\ Now(t).pending_context = Was(t).pending_context

\* C1: a message of a stream that is not subscribed is answered false with
\* no oracle call, and the instance, its documents and every other object
\* are as they were before the call.
C1_UnsubscribedIsNoOp ==
    \A t \in Threads :
        Ended(t) /\ th[t].message.stream_id \notin Was(t).subscribed_streams
        => /\ th[t].result = "false"
           /\ th[t].requests = <<>>
           /\ SameTexts(t)
           /\ DocsNow(t) = DocsWas(t)
           /\ ws = th[t].before.ws
           /\ heap = th[t].before.heap

C1_Witness ==
    \E t \in Threads :
        /\ Ended(t)
        /\ th[t].message.stream_id \notin Was(t).subscribed_streams
        /\ Was(t).pending_context # <<>>
        /\ Was(t).timeline # <<>>
        /\ DocsWas(t) # <<>>

\* C2: when the gate said ADD and the entry call or the summary call fails,
\* timeline, summary and pending_context are what they were before the call.
C2_SynthesisFailureCommitsNothing ==
    \A t \in Threads :
        Ended(t) /\ SynthesisFailed(t) => SameTexts(t)

\* The summary call failed after an entry was written, with messages
\* buffered and a timeline already there.
C2_Witness ==
    \E t \in Threads :
        /\ Ended(t)
        /\ Len(th[t].replies) = 3
        /\ ~Failed(th[t].replies[2])
        /\ Failed(th[t].replies[3])
        /\ th[t].timeline_update # <<>>
        /\ Was(t).pending_context # <<>>
        /\ Was(t).timeline # <<>>

\* C3: every step keeps the old timeline as a prefix of the new one, and a
\* step that ends a call with true makes the timeline strictly longer.
C3_TimelineAppendOnly ==
    [][ \A i \in DOMAIN ws :
          /\ IsPrefix(ws[i].timeline, ws'[i].timeline)
          /\ \A t \in Threads :
               /\ ~Ended(t)
               /\ th'[t].pc = "done"
               /\ th'[t].self = i
               /\ th'[t].result = "true"
               => StrictPrefix(ws[i].timeline, ws'[i].timeline) ]_vars

\* A second entry was committed, and its text is empty.
C3_Witness ==
    \E t \in Threads :
        /\ Ended(t)
        /\ th[t].result = "true"
        /\ Was(t).timeline # <<>>
        /\ th[t].timeline_update = <<>>
        /\ Len(Now(t).timeline) = Len(Was(t).timeline) + 1

\* C4: after a call that returns true, pending_context is empty.
C4_CommitClearsPending ==
    \A t \in Threads :
        Ended(t) /\ th[t].result = "true" => Now(t).pending_context = <<>>

C4_Witness ==
    \E t \in Threads :
        /\ Ended(t)
        /\ th[t].result = "true"
        /\ Len(Was(t).pending_context) >= 2
        /\ Now(t).pending_context = <<>>

\* C5 (as claimed): a gate call that fails counts as ADD, so the call goes
\* on to the synthesis calls; it does not end on the gate failure.
C5_GateFailureCountsAsAdd ==
    \A t \in Threads :
        /\ GateFailed(t) => th[t].pc \in {"entry", "summary", "done"}
        /\ Ended(t) /\ GateFailed(t) => Len(th[t].requests) >= 2
        /\ Ended(t) /\ GateFailed(t) /\ Len(th[t].replies) = 3
             /\ ~Failed(th[t].replies[2]) /\ ~Failed(th[t].replies[3])
           => th[t].result = "true"

\* C6: the call returns true exactly when it extended the timeline; a call
\* that returns false or raises leaves the timeline as it was.
C6_TrueIffTimelineExtended ==
    \A t \in Threads :
        Ended(t) =>
            IF th[t].result = "true"
            THEN StrictPrefix(Was(t).timeline, Now(t).timeline)
            ELSE Now(t).timeline = Was(t).timeline

\* A call that returns false although it changed the state: it buffered
\* its message, on a Workstream whose timeline has entries.
C6_Witness ==
    \E t \in Threads :
        /\ Ended(t)
        /\ th[t].result = "false"
        /\ GateAnswered(t, Store)
        /\ Was(t).timeline # <<>>
        /\ Now(t).pending_context # Was(t).pending_context

\* C7: a call that has ended changed the state in exactly one of the three
\* ways (a) nothing, (b) the message buffered and nothing else, (c) the
\* timeline extended, the summary replaced and the buffer emptied.
OutcomeNothing(t) == SameTexts(t)

OutcomeBuffered(t) ==
    /\ Now(t).pending_context = Append(Was(t).pending_context, th[t].message)
    /\ Now(t).timeline = Was(t).timeline
    /\ Now(t).summary = Was(t).summary

OutcomeCommitted(t) ==
    /\ StrictPrefix(Was(t).timeline, Now(t).timeline)
    /\ Len(th[t].replies) = 3
    /\ ~Failed(th[t].replies[3])
    /\ Now(t).summary = FirstText(th[t].replies[3])
    /\ Now(t).pending_context = <<>>

C7_OneOfThreeOutcomes ==
    \A t \in Threads :
        Ended(t) =>
            Cardinality({ k \in 1..3 :
                \/ k = 1 /\ OutcomeNothing(t)
                \/ k = 2 /\ OutcomeBuffered(t)
                \/ k = 3 /\ OutcomeCommitted(t) }) = 1

\* A commit that replaced a summary by another one and emptied a buffer.
C7_Witness ==
    \E t \in Threads :
        /\ Ended(t)
        /\ OutcomeCommitted(t)
        /\ Was(t).summary # <<>>
        /\ Now(t).summary # Was(t).summary
        /\ Was(t).pending_context # <<>>

\* C8: a subscribed message the gate answers STORE is appended at the end
\* of pending_context, everything else stays, the call returns false; and
\* as long as no call has committed, pending_context holds as many messages
\* as calls have buffered and timeline and summary are empty.
C8_StoreBuffersTheMessage ==
    /\ \A t \in Threads :
         Ended(t) /\ GateAnswered(t, Store)
         => /\ Now(t) = [Was(t) EXCEPT !.pending_context = Append(@, th[t].message)]
            /\ DocsNow(t) = DocsWas(t)
            /\ heap = th[t].before.heap
            /\ th[t].result = "false"
            /\ Len(th[t].requests) = 1
    /\ \A i \in DOMAIN ws :
         stats[i].commits = 0
         => /\ Len(ws[i].pending_context) = stats[i].stored
            /\ ws[i].timeline = <<>>
            /\ ws[i].summary = <<>>

\* The third of three STORE answers on a new Workstream with a document.
C8_Witness ==
    \E t \in Threads :
        /\ Ended(t)
        /\ GateAnswered(t, Store)
        /\ stats[th[t].self] = [stored |-> 3, commits |-> 0]
        /\ Len(Now(t).pending_context) = 3
        /\ Now(t).pending_context[1] # Now(t).pending_context[3]
        /\ DocsNow(t) # <<>>

\* C9: when the gate and both synthesis calls are answered, the timeline
\* is the old timeline, a newline and the entry text; the summary is the
\* summary text; pending_context is empty.
C9_CommitIsExact ==
    \A t \in Threads :
        Ended(t) /\ AllAnswered(t)
        => /\ Now(t).timeline =
                Was(t).timeline \o <<"\n">> \o FirstText(th[t].replies[2])
           /\ Now(t).summary = FirstText(th[t].replies[3])
           /\ Now(t).pending_context = <<>>
           /\ th[t].result = "true"

C9_Witness ==
    \E t \in Threads :
        /\ Ended(t)
        /\ AllAnswered(t)
        /\ FirstText(th[t].replies[1]) = Add
        /\ FirstText(th[t].replies[2]) # <<>>
        /\ Was(t).timeline # <<>>
        /\ Was(t).summary # FirstText(th[t].replies[3])
        /\ Len(Was(t).pending_context) = 1

\* C10: a call whose synthesis failed ends with a result that is neither
\* true nor the false of a buffered message.
C10_SynthesisFailureIsDistinct ==
    \A t \in Threads :
        Ended(t) /\ SynthesisFailed(t)
        => /\ th[t].result # "true"
           /\ th[t].result # RetStored

\* The entry call failed on a message the gate admitted.
C10_Witness ==
    \E t \in Threads :
        /\ Ended(t)
        /\ Len(th[t].replies) = 2
        /\ GateAnswered(t, Add)
        /\ Failed(th[t].replies[2])
        /\ th[t].result = "raise"

----------------------------------------------------------------------------
\* The assembled context.

DocumentsHeader == "\nRelevant Documents:\n"
PendingHeader == "\nPending Messages:\n"

\* The frame has assembled its context (it went past the subscription check).
Assembled(t) == th[t].requests # <<>>

HasToken(ctx, token) == \E k \in 1..Len(ctx) : ctx[k] = token

\* A document takes 7 tokens of the context and a message 6: where the
\* k-th document and the k-th message of a context with n documents start.
DocAt(k) == 1 + 7 * (k - 1)
MsgAt(n, k) == 2 + 7 * n + 6 * (k - 1)

\* C11: the context a call assembled has the pending-messages header
\* exactly when pending_context was not empty at the call; when it was
\* empty the context ends with the documents and holds nothing else.
C11_PendingSectionIffPending ==
    \A t \in Threads :
        Assembled(t)
        => /\ HasToken(th[t].context_section, PendingHeader)
                <=> Was(t).pending_context # <<>>
           /\ Was(t).pending_context = <<>>
                => Len(th[t].context_section) = 1 + 7 * Len(DocsWas(t))
           /\ Was(t).pending_context # <<>>
                => th[t].context_section[2 + 7 * Len(DocsWas(t))] = PendingHeader

\* A context assembled with documents and an empty buffer, after a commit
\* emptied the buffer.
C11_Witness ==
    \E t \in Threads :
        /\ Assembled(t)
        /\ Was(t).pending_context = <<>>
        /\ Was(t).timeline # <<>>
        /\ DocsWas(t) # <<>>
        /\ ~HasToken(th[t].context_section, PendingHeader)

\* The context lists the documents and the messages in the order of the
\* two lists, oldest first.
InListOrder(ctx, docs, pending) ==
    /\ ctx[1] = DocumentsHeader
    /\ \A k \in 1..Len(docs) :
         /\ ctx[DocAt(k) + 2] = docs[k].timestamp
         /\ ctx[DocAt(k) + 6] = docs[k].content
    /\ \A k \in 1..Len(pending) :
         /\ ctx[MsgAt(Len(docs), k) + 2] = pending[k].timestamp
         /\ ctx[MsgAt(Len(docs), k) + 4] = pending[k].stream_id
         /\ ctx[MsgAt(Len(docs), k) + 6] = pending[k].text
    /\ Len(ctx) = 1 + 7 * Len(docs)
                  + (IF pending = <<>> THEN 0 ELSE 1 + 6 * Len(pending))

\* C12: no step reorders the lists (a document list grows at its end by
\* one document at most, pending_context grows at its end by one message
\* or is emptied), and every assembled context lists the documents and the
\* pending messages in the order of the lists.
C12_InsertionOrder ==
    [][ /\ \A ref \in DOMAIN heap :
             /\ IsPrefix(heap[ref], heap'[ref])
             /\ Len(heap'[ref]) <= Len(heap[ref]) + 1
        /\ \A i \in DOMAIN ws :
             \/ ws'[i].pending_context = ws[i].pending_context
             \/ ws'[i].pending_context = <<>>
             \/ /\ Len(ws'[i].pending_context) = Len(ws[i].pending_context) + 1
                /\ IsPrefix(ws[i].pending_context, ws'[i].pending_context)
        /\ \A t \in Threads :
             th'[t].requests # <<>>
             => InListOrder(th'[t].context_section,
                            th'[t].before.heap[th'[t].before.ws[th'[t].self].documents],
                            th'[t].before.ws[th'[t].self].pending_context) ]_vars

\* A context of two different documents, a baseline one and an added one,
\* and two different pending messages.
C12_Witness ==
    \E t \in Threads :
        /\ Assembled(t)
        /\ Len(DocsWas(t)) = 2
        /\ DocsWas(t)[1] # DocsWas(t)[2]
        /\ Len(Was(t).pending_context) = 2
        /\ Was(t).pending_context[1] # Was(t).pending_context[2]
        /\ th[t].before.heap[1] # <<>>
        /\ Was(t).documents = 1

----------------------------------------------------------------------------
\* Two instances.

\* The step is part of an add_document or process_message call on instance i.
StepOn(i) ==
    \/ \E d \in Documents : AddDocument(i, d)
    \/ \E t \in Threads :
         /\ th'[t] # th[t]
         /\ th[t].self = i \/ th'[t].self = i

\* C13 (as claimed): a step of a call on one instance leaves the fields and
\* the documents of every other instance as they were.
C13_InstancesShareNoState ==
    [][ \A i \in DOMAIN ws : \A j \in DOMAIN ws \ {i} :
          StepOn(i)
          => /\ ws'[j] = ws[j]
             /\ heap'[ws[j].documents] = heap[ws[j].documents] ]_vars

----------------------------------------------------------------------------
\* Two threads.

Contains(ctx, part) ==
    \E k \in 1..(Len(ctx) - Len(part) + 1) :
        SubSeq(ctx, k, k + Len(part) - 1) = part

\* The step in which thread t commits.
CommitStep(t) ==
    /\ th[t].pc = "summary"
    /\ th'[t].pc = "done"
    /\ th'[t].result = "true"

\* C14: a commit loses nothing when no other call came between: if
\* timeline and pending_context are, at the commit, what they were when
\* the call began, every message the commit erases is in the context of
\* the entry and the summary request and the summary request has the
\* timeline the entry is appended to.  With calls of two threads
\* interleaved this fails to protect a message: C14_Witness is a state in
\* which a commit has erased a message that no request ever showed.
C14_SerialCommitLosesNothing ==
    [][ \A t \in Threads :
          LET i == th[t].self
              was == th[t].before.ws[i]
          IN
          /\ CommitStep(t)
          /\ ws[i].pending_context = was.pending_context
          /\ ws[i].timeline = was.timeline
          => /\ \A k \in 1..Len(ws[i].pending_context) : \A q \in {2, 3} :
                  Contains(th'[t].requests[q].context,
                           RenderMessage(ws[i].pending_context[k]))
             /\ th'[t].requests[3].timeline = ws[i].timeline
             /\ ws'[i].pending_context = <<>> ]_vars

\* Thread u buffered its message after thread t had assembled its context
\* and before t committed: the message is gone from pending_context and
\* none of t's requests, the only ones since, held it.
C14_Witness ==
    \E t \in Threads : \E u \in Threads \ {t} :
        /\ Ended(t) /\ th[t].result = "true"
        /\ Ended(u) /\ th[u].result = "false" /\ Len(th[u].replies) = 1
        /\ th[u].self = th[t].self
        /\ Was(t).pending_context = <<>>
        /\ Was(u).pending_context = <<>>
        /\ Was(u).timeline = Was(t).timeline
        /\ Now(t).timeline = Was(t).timeline \o <<"\n">> \o th[t].timeline_update
        /\ Now(t).pending_context = <<>>
        /\ \A q \in 1..3 :
             /\ ~HasToken(th[t].requests[q].context, PendingHeader)
             /\ ~HasToken(th[t].requests[q].context, th[u].message.text)

\* The other anomaly: the summary request of a committed call was built on
\* a timeline that lacks an entry committed before the call's own commit.
C14_StaleSummary ==
    \E t \in Threads :
        /\ Ended(t) /\ th[t].result = "true"
        /\ Len(Now(t).timeline) >
             Len(th[t].requests[3].timeline) + 1 + Len(th[t].timeline_update)

\* C18: the requests of one call all carry one context, the one assembled
\* from the documents and the pending messages as they were when the call
\* began, whatever has changed since.
C18_OneContextPerCall ==
    \A t \in Threads :
        Assembled(t)
        => /\ \A k \in 1..Len(th[t].requests) :
                th[t].requests[k].context = th[t].context_section
           /\ InListOrder(th[t].context_section, DocsWas(t), Was(t).pending_context)

\* All three requests were sent while a document was added and a message
\* buffered by the other thread.
C18_Witness ==
    \E t \in Threads :
        /\ Len(th[t].requests) = 3
        /\ th[t].pc = "summary"
        /\ DocsNow(t) # DocsWas(t)
        /\ Now(t).pending_context # Was(t).pending_context
        /\ Now(t).timeline = Was(t).timeline

----------------------------------------------------------------------------
\* The gate's reading of the answer.

LowerCase ==
    << "a", "b", "c", "d", "e", "f", "g", "h", "i", "j", "k", "l", "m",
       "n", "o", "p", "q", "r", "s", "t", "u", "v", "w", "x", "y", "z" >>
UpperCase ==
    << "A", "B", "C", "D", "E", "F", "G", "H", "I", "J", "K", "L", "M",
       "N", "O", "P", "Q", "R", "S", "T", "U", "V", "W", "X", "Y", "Z" >>

\* str.upper()
UpperChar(c) ==
    IF \E k \in 1..26 : LowerCase[k] = c
    THEN UpperCase[CHOOSE k \in 1..26 : LowerCase[k] = c]
    ELSE c
Upper(s) == [k \in 1..Len(s) |-> UpperChar(s[k])]

\* The gate call of the frame was answered with a text.
GateText(t) == FirstText(th[t].replies[1])
GateHasText(t) == Len(th[t].replies) >= 1 /\ ~Failed(th[t].replies[1])

\* The call treated its message as admitted: it went on to the entry
\* request and did not buffer the message.
TreatedAsAdd(t) ==
    /\ Len(th[t].requests) >= 2
    /\ th[t].requests[2].call = "entry"

\* C15 (as claimed): an answer that is ADD after trimming and upper-casing
\* is treated as ADD.
C15_GateIgnoresCase ==
    \A t \in Threads :
        Ended(t) /\ GateHasText(t) /\ Upper(Strip(GateText(t))) = Add
        => TreatedAsAdd(t)

\* C16 (as claimed): an answer with a text that is neither ADD nor STORE
\* after trimming and upper-casing is treated as ADD and the message is not
\* buffered.
C16_UnrecognizedCountsAsAdd ==
    \A t \in Threads :
        /\ Ended(t) /\ GateHasText(t)
        /\ Strip(GateText(t)) # <<>>
        /\ Upper(Strip(GateText(t))) \notin {Add, Store}
        => /\ TreatedAsAdd(t)
           /\ Now(t).pending_context # Append(Was(t).pending_context, th[t].message)

\* The calls of the requests of a frame, in the order they were sent.
Calls(t) == [k \in 1..Len(th[t].requests) |-> th[t].requests[k].call]

\* C17: the requests of a call are a prefix of gate, entry, summary, each
\* sent when the one before has been answered; a synthesis request is sent
\* only after the gate answered ADD (after strip); an unsubscribed message
\* sends none, a STORE answer leaves it at the gate request, and a call in
\* which all were answered sent exactly the three.
C17_OracleCallOrder ==
    \A t \in Threads :
        /\ IsPrefix(Calls(t), <<"gate", "entry", "summary">>)
        /\ Len(th[t].replies) <= Len(th[t].requests)
        /\ Len(th[t].requests) <= Len(th[t].replies) + 1
        /\ Len(th[t].requests) >= 2
             => GateHasText(t) /\ Strip(GateText(t)) = Add
        /\ Ended(t) /\ th[t].message.stream_id \notin Was(t).subscribed_streams
             => th[t].requests = <<>>
        /\ Ended(t) /\ GateAnswered(t, Store) => Calls(t) = <<"gate">>
        /\ Ended(t) /\ th[t].result = "true"
             => Calls(t) = <<"gate", "entry", "summary">> /\ Len(th[t].replies) = 3

\* A call that sent all three requests after an answer of ADD with
\* whitespace around it.
C17_Witness ==
    \E t \in Threads :
        /\ Ended(t)
        /\ th[t].result = "true"
        /\ Len(th[t].requests) = 3
        /\ GateText(t) # Add

\* C19: with calls run one at a time, pending_context changes only by one
\* message appended or by a commit that empties it, and every message the
\* commit removes is in the context of that call's entry and summary
\* requests.
C19_NoMessageLostUnseen ==
    [][ \A i \in DOMAIN ws :
          \/ ws'[i].pending_context = ws[i].pending_context
          \/ /\ Len(ws'[i].pending_context) = Len(ws[i].pending_context) + 1
             /\ IsPrefix(ws[i].pending_context, ws'[i].pending_context)
          \/ /\ ws'[i].pending_context = <<>>
             /\ \E t \in Threads :
                  /\ CommitStep(t)
                  /\ th[t].self = i
                  /\ \A k \in 1..Len(ws[i].pending_context) :
                       /\ Contains(th'[t].requests[2].context,
                                   RenderMessage(ws[i].pending_context[k]))
                       /\ Contains(th'[t].requests[3].context,
                                   RenderMessage(ws[i].pending_context[k])) ]_vars

\* A commit that removed three buffered messages, not all the same.
C19_Witness ==
    \E t \in Threads :
        /\ Ended(t)
        /\ th[t].result = "true"
        /\ Len(Was(t).pending_context) = 3
        /\ Was(t).pending_context[1] # Was(t).pending_context[3]
        /\ Now(t).pending_context = <<>>

\* C20: a call whose gate call failed has sent the gate request only, has
\* not buffered its message, and leaves the instance and the documents as
\* they were, so that the same call can be made again from the same state.
C20_GateFailureChangesNothing ==
    \A t \in Threads :
        Ended(t) /\ GateFailed(t)
        => /\ SameTexts(t)
           /\ ws = th[t].before.ws
           /\ heap = th[t].before.heap
           /\ Calls(t) = <<"gate">>
           /\ th[t].result \notin {"true", "false"}

\* The gate call failed with messages buffered and entries committed.
C20_Witness ==
    \E t \in Threads :
        /\ Ended(t)
        /\ GateFailed(t)
        /\ th[t].message.stream_id \in Was(t).subscribed_streams
        /\ Was(t).pending_context # <<>>
        /\ Was(t).timeline # <<>>

====
